---- MODULE Spec2Model ----
(***************************************************************************)
(* Model of the subscriber-side controller of myPyHaptics                  *)
(* (src/src/subscribe.py, class HapticsController).                        *)
(*                                                                         *)
(* The controller owns one asyncio event loop.  Every command              *)
(* (set_bpm, stop, schedule_start, set_phase_shift, close) is a coroutine  *)
(* handed to that loop with run_coroutine_threadsafe, so every command is  *)
(* an asyncio task of its own; the start timer (_run_scheduled_start),     *)
(* the Actuator initialisation (_initialize) and the beat loop             *)
(* (_play_loop) are tasks too.  The loop runs one task at a time, from the *)
(* point where the task was suspended to its next await that really        *)
(* suspends; `ready` is the loop's FIFO of callbacks.                      *)
(*                                                                         *)
(* Times are wall-clock milliseconds counted from a fixed epoch instant,   *)
(* so that they stay small; the code only ever subtracts times.            *)
(***************************************************************************)
EXTENDS Integers, Sequences, FiniteSets, TLC

VARIABLES
    current_bpm, current_run, current_run_state,
    phase_shift_ms, pending_phase_shift_ms, session_phase_shift_delta_ms,
    last_payload_target_ms, last_target_ms, last_actual_ms, last_event,
    initialized, play_task, scheduled_start_task, current_schedule_id,
    store,          \* ConfigStore record phase_shift_ms: <<>> absent, <<v>> present
    now,            \* wall clock, ms
    tasks,          \* every asyncio task created so far, by id
    ready,          \* the event loop's FIFO of tasks to step
    broker_cmd,     \* the command the broker callback thread is blocked on (0: none)
    gui_cmd,        \* the command the GUI thread is blocked on (0: none)
    loop_running,   \* FALSE once close() has stopped the event loop
    store_writable, \* FALSE once writes to the ConfigStore's database raise
    run_message,    \* the last message on the run topic and what on_message made of it
    consumed_phase_shift_ms, \* history: the sum of the shifts the beat loop has
                    \* consumed since session_phase_shift_delta_ms was last cleared
    superseded      \* history: the accepted starts (command, then timer) that a later
                    \* stop, close or accepted start has superseded

vars == << current_bpm, current_run, current_run_state,
           phase_shift_ms, pending_phase_shift_ms, session_phase_shift_delta_ms,
           last_payload_target_ms, last_target_ms, last_actual_ms, last_event,
           initialized, play_task, scheduled_start_task, current_schedule_id,
           store, now, tasks, ready, broker_cmd, gui_cmd, loop_running, superseded,
           store_writable, run_message, consumed_phase_shift_ms >>

-----------------------------------------------------------------------------
(* Program constants *)
DEFAULT_BPM == 120
STALE_START_THRESHOLD_MS == 5000
PHASE_SHIFT_MIN_MS == -2000
PHASE_SHIFT_MAX_MS == 2000
CALLER_TIMEOUT_MS == 5000    \* timeout: float = 5.0 of the command wrappers

(* Bounds of the model *)
MaxCmds == 3        \* commands submitted in one behaviour
MaxTicks == 1       \* advances of the wall clock
MaxTimeouts == 1    \* callers that give up waiting in one behaviour
TickMs == 1000      \* one advance of the wall clock, ms

(* Inputs *)
BpmInputs == {60, 0}
PayloadInputs == {-5001, -5000, 1000}
PhaseShiftInputs == {0, 200, 3000}      \* what the operator enters in the UI
PhaseShiftRequests == {-3000, 200, 3000} \* what a caller passes to set_phase_shift
StoredPhaseShifts == {0}

None == << >>
Some(v) == << v >>
NoTask == 0

-----------------------------------------------------------------------------
(* The state as one record, so that a handler is a function from state to  *)
(* state and the statements of a coroutine compose.                        *)
St == [ current_bpm |-> current_bpm, current_run |-> current_run,
        current_run_state |-> current_run_state,
        phase_shift_ms |-> phase_shift_ms,
        pending_phase_shift_ms |-> pending_phase_shift_ms,
        session_phase_shift_delta_ms |-> session_phase_shift_delta_ms,
        last_payload_target_ms |-> last_payload_target_ms,
        last_target_ms |-> last_target_ms,
        last_actual_ms |-> last_actual_ms,
        last_event |-> last_event,
        initialized |-> initialized,
        play_task |-> play_task,
        scheduled_start_task |-> scheduled_start_task,
        current_schedule_id |-> current_schedule_id,
        store |-> store, now |-> now, tasks |-> tasks, ready |-> ready,
        superseded |-> superseded, store_writable |-> store_writable,
        run_message |-> run_message,
        consumed_phase_shift_ms |-> consumed_phase_shift_ms ]

Install(s) ==
    \E installed \in {s} :    \* the handler's result, evaluated once
        /\ current_bpm' = installed.current_bpm
        /\ current_run' = installed.current_run
        /\ current_run_state' = installed.current_run_state
        /\ phase_shift_ms' = installed.phase_shift_ms
        /\ pending_phase_shift_ms' = installed.pending_phase_shift_ms
        /\ session_phase_shift_delta_ms' = installed.session_phase_shift_delta_ms
        /\ last_payload_target_ms' = installed.last_payload_target_ms
        /\ last_target_ms' = installed.last_target_ms
        /\ last_actual_ms' = installed.last_actual_ms
        /\ last_event' = installed.last_event
        /\ initialized' = installed.initialized
        /\ play_task' = installed.play_task
        /\ scheduled_start_task' = installed.scheduled_start_task
        /\ current_schedule_id' = installed.current_schedule_id
        /\ store' = installed.store
        /\ now' = installed.now
        /\ tasks' = installed.tasks
        /\ store_writable' = installed.store_writable
        /\ run_message' = installed.run_message
        /\ consumed_phase_shift_ms' = installed.consumed_phase_shift_ms
        /\ ready' = installed.ready
        /\ superseded' = installed.superseded

-----------------------------------------------------------------------------
(* asyncio tasks *)

\* A task record.  kind: "cmd", "timer", "init", "play".  pc: the await the task is
\* suspended at ("start" before its first step).  result: "pending" until the task
\* is done, then "ok", "error" or "cancelled".  wait: what the task is suspended on
\* ("none" when it sits in `ready`), wait_on the awaited task.  must_cancel: the
\* next step throws CancelledError into the coroutine.
NewTask(kind, op, arg) ==
    [ kind |-> kind, op |-> op, arg |-> arg, pc |-> "start", result |-> "pending",
      wait |-> "none", wait_on |-> NoTask, must_cancel |-> FALSE, ext_result |-> "ok",
      waiters |-> << >>,
      payload_target_ms |-> 0, target_ms |-> 0, schedule_id |-> 0,
      initialize_task |-> NoTask,
      eff_at_call |-> 0, phase_at_call |-> 0, delta_at_call |-> 0, accepted |-> FALSE,
      requested |-> None, caller_gave_up |-> FALSE,
      next_tick |-> 0, beat_interval |-> 0 ]

Done(s, t) == s.tasks[t].result # "pending"
Active(s, t) == IF t = NoTask THEN FALSE ELSE ~Done(s, t)

\* loop.create_task / run_coroutine_threadsafe: the new task's first step is queued
CreateTask(s, rec) ==
    [s EXCEPT !.tasks = Append(@, rec), !.ready = Append(@, Len(s.tasks) + 1)]

\* Task.cancel()
RECURSIVE Cancel(_, _)
Cancel(s, t) ==
    IF Done(s, t) THEN s
    ELSE IF s.tasks[t].wait = "task" THEN Cancel(s, s.tasks[t].wait_on)
    ELSE IF s.tasks[t].wait \in {"sleep", "ext"}
         THEN [s EXCEPT !.tasks[t].wait = "none", !.tasks[t].must_cancel = TRUE,
                        !.ready = Append(@, t)]
    ELSE [s EXCEPT !.tasks[t].must_cancel = TRUE]

\* the task ends: its done-callbacks wake the tasks awaiting it, in the order they
\* began to wait
RECURSIVE WakeAll(_, _)
WakeAll(s, ws) ==
    IF ws = << >> THEN s
    ELSE WakeAll([s EXCEPT !.tasks[Head(ws)].wait = "none",
                           !.tasks[Head(ws)].wait_on = NoTask,
                           !.ready = Append(@, Head(ws))], Tail(ws))

Finish(s, t, result, pc) ==
    WakeAll([s EXCEPT !.tasks[t].result = result, !.tasks[t].pc = pc,
                      !.tasks[t].wait = "none", !.tasks[t].must_cancel = FALSE,
                      !.tasks[t].waiters = << >>],
            s.tasks[t].waiters)

\* `await u` on a task that is not done
AwaitTask(s, t, u, pc) ==
    [s EXCEPT !.tasks[t].wait = "task", !.tasks[t].wait_on = u, !.tasks[t].pc = pc,
              !.tasks[u].waiters = Append(@, t)]

\* `await` of an Actuator call (bhaptics_python.*): completes later, ok or error
AwaitExt(s, t, pc) ==
    [s EXCEPT !.tasks[t].wait = "ext", !.tasks[t].pc = pc]

\* `await asyncio.sleep(d)` with d > 0
AwaitSleep(s, t, pc) ==
    [s EXCEPT !.tasks[t].wait = "sleep", !.tasks[t].pc = pc]

-----------------------------------------------------------------------------
(* HapticsController: helpers *)

ActiveTimers(s) ==
    {t \in 1..Len(s.tasks) : s.tasks[t].kind = "timer" /\ ~Done(s, t)}

\* the commands suspended in an accepted _schedule_start_async, before the timer is armed
PendingStarts(s) ==
    {c \in 1..Len(s.tasks) : s.tasks[c].kind = "cmd" /\ s.tasks[c].accepted /\ ~Done(s, c)}

\* mutant of BumpScheduleId: the id advances by two
BumpScheduleIdTwice(s) ==
    [s EXCEPT !.current_schedule_id = @ + 2,
              !.superseded = @ \cup ActiveTimers(s) \cup PendingStarts(s)]

\* self.current_schedule_id += 1 (history: every start accepted so far is superseded)
BumpScheduleId(s) ==
    [s EXCEPT !.current_schedule_id = @ + 1,
              !.superseded = @ \cup ActiveTimers(s) \cup PendingStarts(s)]

\* mutant of GetEffectivePhaseShiftMs: the staged session delta is left out
GetEffectivePhaseShiftMsCommitted(s) == s.phase_shift_ms

GetEffectivePhaseShiftMs(s) == s.phase_shift_ms + s.session_phase_shift_delta_ms

\* mutant of ComputeTargetMs: the shift is added
ComputeTargetMsAdded(s, payload_target_ms) ==
    payload_target_ms + GetEffectivePhaseShiftMs(s)

ComputeTargetMs(s, payload_target_ms) ==
    payload_target_ms - GetEffectivePhaseShiftMs(s)

SetScheduleTimes(s, payload_target_ms, target_ms, actual_ms) ==
    [s EXCEPT !.last_payload_target_ms = payload_target_ms,
              !.last_target_ms = target_ms,
              !.last_actual_ms = actual_ms]

\* ConfigStore.save_phase_shift_ms
SaveRaises(s) == ~s.store_writable

SavePhaseShiftMs(s, value) ==
    IF SaveRaises(s) THEN s ELSE [s EXCEPT !.store = Some(value)]

\* mutant of CommitSessionPhaseShift: the committed value is not saved
CommitSessionPhaseShiftUnsaved(s) ==
    [s EXCEPT !.phase_shift_ms = @ + s.session_phase_shift_delta_ms,
              !.session_phase_shift_delta_ms = 0,
              !.pending_phase_shift_ms = 0,
              !.consumed_phase_shift_ms = 0]

\* mutant of CommitSessionPhaseShift: the committed session delta is not cleared
CommitSessionPhaseShiftKeepingDelta(s) ==
    LET committed_phase == s.phase_shift_ms + s.session_phase_shift_delta_ms
    IN  IF s.session_phase_shift_delta_ms = 0
        THEN [s EXCEPT !.pending_phase_shift_ms = 0, !.consumed_phase_shift_ms = 0]
        ELSE [s EXCEPT !.phase_shift_ms = committed_phase,
                       !.pending_phase_shift_ms = 0,
                       !.store = Some(committed_phase),
                       !.last_event = "committed phase_shift_ms"]

CommitSessionPhaseShift(s) ==
    LET delta_ms == s.session_phase_shift_delta_ms
        committed_phase == s.phase_shift_ms + delta_ms
    IN  IF delta_ms = 0
        THEN \* the session delta is zero already: the session ends here too
             [s EXCEPT !.pending_phase_shift_ms = 0, !.consumed_phase_shift_ms = 0]
        ELSE LET s1 == [s EXCEPT !.phase_shift_ms = committed_phase,
                                 !.session_phase_shift_delta_ms = 0,
                                 !.pending_phase_shift_ms = 0,
                                 !.consumed_phase_shift_ms = 0]
             IN  IF SaveRaises(s1) THEN s1
                 ELSE [SavePhaseShiftMs(s1, committed_phase)
                       EXCEPT !.last_event = "committed phase_shift_ms"]

\* _commit_session_phase_shift ends with the exception of save_phase_shift_ms
CommitRaises(s) == s.session_phase_shift_delta_ms # 0 /\ SaveRaises(s)

\* _start_play_loop
StartPlayLoop(s) ==
    IF ~Active(s, s.play_task)
    THEN [CreateTask(s, NewTask("play", "play_loop", 0))
          EXCEPT !.play_task = Len(s.tasks) + 1,
                 !.current_run_state = "running",
                 !.last_event = "play loop started"]
    ELSE s

-----------------------------------------------------------------------------
(* _initialize, one step of the task the start timer creates for it *)
InitializeStep(s, t) ==
    LET me == s.tasks[t] IN
    IF me.must_cancel THEN Finish(s, t, "cancelled", "cancelled")
    ELSE IF me.pc = "start"
    THEN IF s.initialized THEN Finish(s, t, "ok", "returned")
         ELSE AwaitExt(s, t, "registry_and_initialize")
    ELSE \* pc = "registry_and_initialize"
         IF me.ext_result = "error" THEN Finish(s, t, "error", "raised")
         ELSE Finish([s EXCEPT !.initialized = TRUE], t, "ok", "returned")

-----------------------------------------------------------------------------
(* _play_loop, one step of the beat task.  The loop's clock (time.perf_counter) *)
(* advances with the wall clock: both are `now`, in ms.                         *)
\* mutant of ConsumePendingPhaseShiftMs: the pending shift is read, not cleared
ConsumePendingPhaseShiftMsKeeping(s) ==
    IF s.pending_phase_shift_ms # 0
    THEN [s EXCEPT !.consumed_phase_shift_ms = @ + s.pending_phase_shift_ms,
                   !.last_event = "applied pending phase shift"]
    ELSE s

\* _consume_pending_phase_shift_ms, and lines 334-337 of _play_loop
ConsumePendingPhaseShiftMs(s) ==
    IF s.pending_phase_shift_ms # 0
    THEN [s EXCEPT !.pending_phase_shift_ms = 0,
                   !.consumed_phase_shift_ms = @ + s.pending_phase_shift_ms,
                   !.last_event = "applied pending phase shift"]
    ELSE s

\* mutant of BeatIntervalMs: the period of the default BPM, whatever the BPM is
BeatIntervalMsAtStart(bpm) == 60000 \div DEFAULT_BPM

\* beat_interval = 60.0 / bpm, line 340, in ms
BeatIntervalMs(bpm) == 60000 \div bpm

\* while next_tick <= now: next_tick += beat_interval, lines 351-352
RECURSIVE CatchUp(_, _, _)
CatchUp(next_tick, now_ms, beat_interval) ==
    IF next_tick <= now_ms
    THEN CatchUp(next_tick + beat_interval, now_ms, beat_interval)
    ELSE next_tick

\* lines 333-342: the pending shift is consumed and the beat is played
PlayLoopTop(s, t) ==
    AwaitExt([ConsumePendingPhaseShiftMs(s)
              EXCEPT !.tasks[t].next_tick = @ - s.pending_phase_shift_ms,
                     !.tasks[t].beat_interval = BeatIntervalMs(s.current_bpm)],
             t, "play_dot")

\* mutant of NextTickAfterBeat: the period is subtracted
NextTickAfterBeatEarlier(me) == me.next_tick - me.beat_interval

\* next_tick += beat_interval, line 345
NextTickAfterBeat(me) == me.next_tick + me.beat_interval

\* the beat task ends: its locals next_tick and beat_interval are gone
PlayLoopEnds(s, t, result, pc) ==
    Finish([s EXCEPT !.tasks[t].next_tick = 0, !.tasks[t].beat_interval = 0],
           t, result, pc)

PlayLoopStep(s, t) ==
    LET me == s.tasks[t] IN
    IF me.must_cancel THEN PlayLoopEnds(s, t, "cancelled", "cancelled")
    ELSE IF me.pc = "start"
    THEN PlayLoopTop([s EXCEPT !.tasks[t].next_tick = s.now], t)
    ELSE IF me.pc = "sleep" THEN PlayLoopTop(s, t)
    ELSE \* pc = "play_dot"
         IF me.ext_result = "error" THEN PlayLoopEnds(s, t, "error", "raised")
         ELSE LET next_tick == NextTickAfterBeat(me) IN
              IF next_tick - s.now > 0
              THEN AwaitSleep([s EXCEPT !.tasks[t].next_tick = next_tick,
                                        !.tasks[t].beat_interval = 0], t, "sleep")
              ELSE PlayLoopTop(
                     [s EXCEPT !.tasks[t].next_tick =
                                   CatchUp(next_tick, s.now, me.beat_interval)], t)

-----------------------------------------------------------------------------
(* _run_scheduled_start, one step of the start timer task *)

\* mutant of StaleScheduleId: the timer does not compare its schedule_id
StaleScheduleIdUnchecked(s, t) == FALSE

\* schedule_id != self.current_schedule_id, line 399
StaleScheduleId(s, t) == s.tasks[t].schedule_id # s.current_schedule_id

\* the id checks and the start, lines 399-417
ScheduledStartReached(s, t) ==
    LET me == s.tasks[t] IN
    IF StaleScheduleId(s, t)
    THEN Finish(s, t, "ok", "ignored stale")
    ELSE IF s.current_run # 1
    THEN Finish(s, t, "ok", "ignored cancelled")
    ELSE Finish(
           StartPlayLoop(
             [SetScheduleTimes(s, Some(me.payload_target_ms), Some(me.target_ms),
                               Some(s.now))
              EXCEPT !.last_event = "scheduled start reached"]),
           t, "ok", "fired")

\* `await initialize_task`, line 397
AwaitInitialize(s, t) ==
    LET i == s.tasks[t].initialize_task IN
    IF ~Done(s, i) THEN AwaitTask(s, t, i, "await initialize_task")
    ELSE IF s.tasks[i].result = "error" THEN Finish(s, t, "error", "raised")
    ELSE ScheduledStartReached(s, t)

\* mutant of ScheduledStartCancelled: the initialization task is left running
ScheduledStartCancelledLeavingInit(s, t) == Finish(s, t, "cancelled", "cancelled")

\* except asyncio.CancelledError, lines 418-423
ScheduledStartCancelled(s, t) ==
    LET i == s.tasks[t].initialize_task IN
    IF ~Done(s, i) THEN AwaitTask(Cancel(s, i), t, i, "cancel initialize_task")
    ELSE Finish(s, t, "cancelled", "cancelled")

\* mutant of SleepsBeforeStart: the timer does not wait for its target
SleepsBeforeStartNever(delay_ms) == FALSE

\* if delay_ms > 0: await asyncio.sleep(delay_ms / 1000.0), lines 393-394
SleepsBeforeStart(delay_ms) == delay_ms > 0

RunScheduledStartStep(s, t) ==
    LET me == s.tasks[t] IN
    CASE me.pc = "start" ->
           IF me.must_cancel THEN Finish(s, t, "cancelled", "cancelled")
           ELSE LET i  == Len(s.tasks) + 1
                    s1 == [CreateTask(s, NewTask("init", "initialize", 0))
                           EXCEPT !.tasks[t].initialize_task = i]
                IN  IF SleepsBeforeStart(me.target_ms - s.now)
                    THEN AwaitSleep(s1, t, "sleep")
                    ELSE AwaitInitialize(s1, t)
      [] me.pc = "sleep" ->
           IF me.must_cancel THEN ScheduledStartCancelled(s, t)
           ELSE AwaitInitialize(s, t)
      [] me.pc = "await initialize_task" ->
           IF me.must_cancel \/ s.tasks[me.initialize_task].result = "cancelled"
           THEN ScheduledStartCancelled(s, t)
           ELSE AwaitInitialize(s, t)
      [] me.pc = "cancel initialize_task" ->
           Finish(s, t, "cancelled", "cancelled")

-----------------------------------------------------------------------------
(* The commands.  Each is one coroutine; <Name>Async(s, c) is the step of command *)
(* task c from the await it is suspended at to its next suspension or its end.    *)

\* mutant of SetBpmAsync: a rejected bpm is still recorded as the last event
SetBpmAsyncRecordingRejected(s, c) ==
    LET bpm == s.tasks[c].arg IN
    IF bpm <= 0 THEN Finish([s EXCEPT !.last_event = "updated bpm"], c, "error", "raised")
    ELSE Finish([s EXCEPT !.current_bpm = bpm, !.last_event = "updated bpm"],
                c, "ok", "returned")

\* _set_bpm_async
SetBpmAsync(s, c) ==
    LET bpm == s.tasks[c].arg IN
    IF bpm <= 0 THEN Finish(s, c, "error", "raised")
    ELSE Finish([s EXCEPT !.current_bpm = bpm, !.last_event = "updated bpm"],
                c, "ok", "returned")

\* mutant of ArmedRunState: the start is reported as running before the timer fires
ArmedRunStateRunning == "running"

\* self._set_run_state("scheduled"), line 516
ArmedRunState == "scheduled"

\* _schedule_start_async from line 515 on: the timer is armed
ScheduleStartArm(s, c) ==
    LET me == s.tasks[c]
        s1 == [SetScheduleTimes(s, Some(me.payload_target_ms), Some(me.target_ms), None)
               EXCEPT !.current_run_state = ArmedRunState]
        s2 == [CreateTask(s1, [NewTask("timer", "run_scheduled_start", 0)
                               EXCEPT !.payload_target_ms = me.payload_target_ms,
                                      !.target_ms = me.target_ms,
                                      !.schedule_id = me.schedule_id])
               EXCEPT !.scheduled_start_task = Len(s1.tasks) + 1,
                      !.last_event = "scheduled start",
                      !.superseded = IF c \in @ THEN @ \cup {Len(s1.tasks) + 1} ELSE @]
    IN  Finish(s2, c, "ok", "returned")

\* _cancel_scheduled_start_task as called from _schedule_start_async, line 514
ScheduleStartCancelTimer(s, c) ==
    IF Active(s, s.scheduled_start_task)
    THEN AwaitTask(Cancel(s, s.scheduled_start_task), c, s.scheduled_start_task,
                   "start: cancel scheduled_start_task")
    ELSE ScheduleStartArm([s EXCEPT !.scheduled_start_task = NoTask], c)

\* mutant of StaleStart: a lag of exactly the threshold is rejected too
StaleStartInclusive(lag_ms) == lag_ms >= STALE_START_THRESHOLD_MS

\* lag_ms > STALE_START_THRESHOLD_MS, line 498
StaleStart(lag_ms) == lag_ms > STALE_START_THRESHOLD_MS

\* _schedule_start_async, lines 494-514
ScheduleStartBegin(s, c, payload_target_ms) ==
    LET target_ms == ComputeTargetMs(s, payload_target_ms)
        lag_ms    == s.now - target_ms
    IN  IF StaleStart(lag_ms)
        THEN Finish([s EXCEPT !.last_event = "ignored stale start timestamp"],
                    c, "ok", "returned")
        ELSE LET s1 == BumpScheduleId([s EXCEPT !.current_run = 1])
             IN  ScheduleStartCancelTimer(
                   [s1 EXCEPT !.tasks[c].payload_target_ms = payload_target_ms,
                              !.tasks[c].target_ms = target_ms,
                              !.tasks[c].schedule_id = s1.current_schedule_id,
                              !.tasks[c].accepted = TRUE], c)

ScheduleStartAsync(s, c) ==
    IF s.tasks[c].pc = "start"
    THEN ScheduleStartBegin(s, c, s.tasks[c].arg)
    ELSE \* resumed in _cancel_scheduled_start_task, line 374
         ScheduleStartArm([s EXCEPT !.scheduled_start_task = NoTask], c)

\* mutant of QueuePhaseShift: the pending shift is replaced, not accumulated
QueuePhaseShiftReplacing(s, delta_ms) ==
    [s EXCEPT !.pending_phase_shift_ms = delta_ms,
              !.session_phase_shift_delta_ms = @ + delta_ms,
              !.last_event = "queued phase shift update"]

\* _set_phase_shift_async, lines 450-461
QueuePhaseShift(s, delta_ms) ==
    [s EXCEPT !.pending_phase_shift_ms = @ + delta_ms,
              !.session_phase_shift_delta_ms = @ + delta_ms,
              !.last_event = "queued phase shift update"]

\* mutant of RescheduledPayload: a pending start is never rescheduled
RescheduledPayloadNever(s, scheduled) == None

\* last_payload_target_ms if scheduled else None, lines 468-470
RescheduledPayload(s, scheduled) ==
    IF scheduled THEN s.last_payload_target_ms ELSE None

\* mutant of ApplyPhaseShift: the new value is not written to the ConfigStore
ApplyPhaseShiftUnsaved(s, phase_shift) ==
    [s EXCEPT !.phase_shift_ms = phase_shift,
              !.pending_phase_shift_ms = 0,
              !.session_phase_shift_delta_ms = 0,
              !.consumed_phase_shift_ms = 0,
              !.last_event = "updated phase_shift_ms"]

\* _set_phase_shift_async, lines 464-474: no beat loop is running
ApplyPhaseShift(s, phase_shift) ==
    LET s1 == [s EXCEPT !.phase_shift_ms = phase_shift,
                        !.pending_phase_shift_ms = 0,
                        !.session_phase_shift_delta_ms = 0,
                        !.consumed_phase_shift_ms = 0]
    IN  IF SaveRaises(s1) THEN s1
        ELSE [SavePhaseShiftMs(s1, phase_shift)
              EXCEPT !.last_event = "updated phase_shift_ms"]

\* _set_phase_shift_async
SetPhaseShiftAsync(s, c) ==
    LET phase_shift == s.tasks[c].arg
        running     == Active(s, s.play_task)
        scheduled   == Active(s, s.scheduled_start_task)
        delta_ms    == phase_shift - GetEffectivePhaseShiftMs(s)
        last_payload == RescheduledPayload(s, scheduled)
    IN
    IF s.tasks[c].pc # "start"
    THEN \* resumed in the nested _schedule_start_async, line 477
         ScheduleStartArm([s EXCEPT !.scheduled_start_task = NoTask], c)
    ELSE IF phase_shift < PHASE_SHIFT_MIN_MS \/ phase_shift > PHASE_SHIFT_MAX_MS
    THEN Finish(s, c, "error", "raised")
    ELSE IF running
    THEN IF delta_ms = 0 THEN Finish(s, c, "ok", "returned")
         ELSE Finish(QueuePhaseShift(s, delta_ms), c, "ok", "returned")
    ELSE LET s1 == ApplyPhaseShift(s, phase_shift)
         IN  IF SaveRaises(s) THEN Finish(s1, c, "error", "raised")
             ELSE IF last_payload # None
             THEN ScheduleStartBegin(s1, c, last_payload[1])
             ELSE Finish(s1, c, "ok", "returned")

\* self._commit_session_phase_shift() as the last statement of _stop_async
StopCommit(s, c) ==
    IF CommitRaises(s) THEN Finish(CommitSessionPhaseShift(s), c, "error", "raised")
    ELSE Finish(CommitSessionPhaseShift(s), c, "ok", "returned")

\* _stop_async, lines 488-492
StopAll(s, c) ==
    IF s.initialized THEN AwaitExt(s, c, "stop_all")
    ELSE StopCommit(s, c)

\* _cancel_play_task as called from _stop_async, line 487
StopCancelPlay(s, c) ==
    IF Active(s, s.play_task)
    THEN AwaitTask(Cancel(s, s.play_task), c, s.play_task, "cancel play_task")
    ELSE StopAll([s EXCEPT !.play_task = NoTask], c)

\* _cancel_scheduled_start_task as called from _stop_async, line 486
StopCancelTimer(s, c) ==
    IF Active(s, s.scheduled_start_task)
    THEN AwaitTask(Cancel(s, s.scheduled_start_task), c, s.scheduled_start_task,
                   "cancel scheduled_start_task")
    ELSE StopCancelPlay([s EXCEPT !.scheduled_start_task = NoTask], c)

\* _stop_async
StopAsync(s, c) ==
    LET me == s.tasks[c] IN
    CASE me.pc = "start" ->
           StopCancelTimer(
             [BumpScheduleId([s EXCEPT !.current_run = 0])
              EXCEPT !.current_run_state = "stopped",
                     !.last_event = "updated run=0"], c)
      [] me.pc = "cancel scheduled_start_task" ->
           StopCancelPlay([s EXCEPT !.scheduled_start_task = NoTask], c)
      [] me.pc = "cancel play_task" ->
           StopAll([s EXCEPT !.play_task = NoTask], c)
      [] me.pc = "stop_all" ->
           IF me.ext_result = "error" THEN Finish(s, c, "error", "raised")
           ELSE StopCommit(s, c)

\* _close_async, lines 544-548
CloseActuator(s, c) ==
    LET s1 == CommitSessionPhaseShift(s) IN
    IF CommitRaises(s) THEN Finish(s1, c, "error", "raised")
    ELSE IF s1.initialized THEN AwaitExt(s1, c, "close")
    ELSE Finish(s1, c, "ok", "returned")

\* _close_async, lines 541-542
CloseStopAll(s, c) ==
    IF s.initialized THEN AwaitExt(s, c, "stop_all") ELSE CloseActuator(s, c)

CloseCancelPlay(s, c) ==
    IF Active(s, s.play_task)
    THEN AwaitTask(Cancel(s, s.play_task), c, s.play_task, "cancel play_task")
    ELSE CloseStopAll([s EXCEPT !.play_task = NoTask], c)

CloseCancelTimer(s, c) ==
    IF Active(s, s.scheduled_start_task)
    THEN AwaitTask(Cancel(s, s.scheduled_start_task), c, s.scheduled_start_task,
                   "cancel scheduled_start_task")
    ELSE CloseCancelPlay([s EXCEPT !.scheduled_start_task = NoTask], c)

\* _close_async
CloseAsync(s, c) ==
    LET me == s.tasks[c] IN
    CASE me.pc = "start" ->
           CloseCancelTimer(
             [BumpScheduleId([s EXCEPT !.current_run = 0])
              EXCEPT !.current_run_state = "stopped"], c)
      [] me.pc = "cancel scheduled_start_task" ->
           CloseCancelPlay([s EXCEPT !.scheduled_start_task = NoTask], c)
      [] me.pc = "cancel play_task" ->
           CloseStopAll([s EXCEPT !.play_task = NoTask], c)
      [] me.pc = "stop_all" ->
           IF me.ext_result = "error" THEN Finish(s, c, "error", "raised")
           ELSE CloseActuator(s, c)
      [] me.pc = "close" ->
           IF me.ext_result = "error" THEN Finish(s, c, "error", "raised")
           ELSE Finish([s EXCEPT !.initialized = FALSE], c, "ok", "returned")

-----------------------------------------------------------------------------
(* The state after HapticsController.__init__ (lines 242-262): phase_shift_ms is *)
(* loaded from the ConfigStore, 0 when the record is absent.                      *)
Init ==
    /\ current_bpm = DEFAULT_BPM
    /\ current_run = 0
    /\ current_run_state = "stopped"
    /\ store \in {None} \cup {Some(v) : v \in StoredPhaseShifts}
    /\ phase_shift_ms = (IF store = None THEN 0 ELSE store[1])
    /\ pending_phase_shift_ms = 0
    /\ session_phase_shift_delta_ms = 0
    /\ last_payload_target_ms = None
    /\ last_target_ms = None
    /\ last_actual_ms = None
    /\ last_event = "loaded phase_shift_ms"
    /\ initialized = FALSE
    /\ play_task = NoTask
    /\ scheduled_start_task = NoTask
    /\ current_schedule_id = 0
    /\ now = 0
    /\ tasks = << >>
    /\ ready = << >>
    /\ broker_cmd = NoTask
    /\ gui_cmd = NoTask
    /\ loop_running = TRUE
    /\ superseded = {}
    /\ store_writable = TRUE
    /\ run_message = None
    /\ consumed_phase_shift_ms = 0

-----------------------------------------------------------------------------
(* The threads that submit commands.  A caller blocks in future.result() until   *)
(* its command is done, so each thread has at most one command in flight; the    *)
(* main thread calls close() after the broker thread and the GUI have ended.     *)
Cmds == {t \in 1..Len(tasks) : tasks[t].kind = "cmd"}
Idle(c) == IF c = NoTask THEN TRUE ELSE tasks[c].result # "pending"
Closing == \E c \in Cmds : tasks[c].op = "close"
MaySubmit == loop_running /\ ~Closing /\ Cardinality(Cmds) < MaxCmds

\* run_coroutine_threadsafe(coro, self.loop)
Submit(op, arg) == Install(CreateTask(St, NewTask("cmd", op, arg)))

\* on_message, TOPIC_BPM -> controller.set_bpm
BrokerSetBpm ==
    \E bpm \in BpmInputs :
        /\ MaySubmit /\ Idle(broker_cmd)
        /\ Submit("set_bpm", bpm)
        /\ broker_cmd' = Len(tasks) + 1
        /\ UNCHANGED << gui_cmd, loop_running >>

\* on_message, TOPIC_RUN, "stop" -> controller.stop
BrokerStop ==
    /\ MaySubmit /\ Idle(broker_cmd)
    /\ Submit("stop", 0)
    /\ broker_cmd' = Len(tasks) + 1
    /\ UNCHANGED << gui_cmd, loop_running >>

\* on_message, TOPIC_RUN, "start" -> controller.schedule_start
BrokerScheduleStart ==
    \E payload_target_ms \in PayloadInputs :
        /\ MaySubmit /\ Idle(broker_cmd)
        /\ Submit("schedule_start", payload_target_ms)
        /\ broker_cmd' = Len(tasks) + 1
        /\ UNCHANGED << gui_cmd, loop_running >>

\* mutant of ClampPhaseShift: the upper limit is not applied
ClampPhaseShiftBelowOnly(value) ==
    IF value < PHASE_SHIFT_MIN_MS THEN PHASE_SHIFT_MIN_MS ELSE value

\* SubscriberControlUI._clamp_phase_shift
ClampPhaseShift(value) ==
    IF value < PHASE_SHIFT_MIN_MS THEN PHASE_SHIFT_MIN_MS
    ELSE IF value > PHASE_SHIFT_MAX_MS THEN PHASE_SHIFT_MAX_MS
    ELSE value

\* SubscriberControlUI._apply_phase_shift -> controller.set_phase_shift; the task
\* keeps what the operator entered (history)
GuiSetPhaseShift ==
    \E entry \in PhaseShiftInputs :
        /\ MaySubmit /\ Idle(gui_cmd)
        /\ Install(CreateTask(St, [NewTask("cmd", "set_phase_shift",
                                           ClampPhaseShift(entry))
                                   EXCEPT !.requested = Some(entry)]))
        /\ gui_cmd' = Len(tasks) + 1
        /\ UNCHANGED << broker_cmd, loop_running >>

\* main, finally: controller.close()
MainClose ==
    /\ MaySubmit /\ Idle(broker_cmd) /\ Idle(gui_cmd)
    /\ Submit("close", 0)
    /\ UNCHANGED << broker_cmd, gui_cmd, loop_running >>

\* close(), finally: loop.stop once the close command is done
LoopStop ==
    /\ loop_running
    /\ \E c \in Cmds : tasks[c].op = "close" /\ tasks[c].result # "pending"
    /\ loop_running' = FALSE
    /\ UNCHANGED << current_bpm, current_run, current_run_state,
           phase_shift_ms, pending_phase_shift_ms, session_phase_shift_delta_ms,
           last_payload_target_ms, last_target_ms, last_actual_ms, last_event,
           initialized, play_task, scheduled_start_task, current_schedule_id,
           store, now, tasks, ready, broker_cmd, gui_cmd, superseded, store_writable,
           run_message, consumed_phase_shift_ms >>

-----------------------------------------------------------------------------
(* The event loop: it takes the first task of `ready` and steps it.              *)
Runs(kind, op) ==
    /\ loop_running /\ ready # << >>
    /\ tasks[Head(ready)].kind = kind /\ tasks[Head(ready)].op = op

\* history: what a command saw when it was called
AtCall(s, c) ==
    IF s.tasks[c].pc = "start"
    THEN [s EXCEPT !.tasks[c].eff_at_call = GetEffectivePhaseShiftMs(s),
                   !.tasks[c].phase_at_call = s.phase_shift_ms,
                   !.tasks[c].delta_at_call = s.session_phase_shift_delta_ms]
    ELSE s

Taken == AtCall([St EXCEPT !.ready = Tail(@)], Head(ready))

SetBpm ==
    /\ Runs("cmd", "set_bpm")
    /\ Install(SetBpmAsync(Taken, Head(ready)))
    /\ UNCHANGED << broker_cmd, gui_cmd, loop_running >>

Stop ==
    /\ Runs("cmd", "stop")
    /\ Install(StopAsync(Taken, Head(ready)))
    /\ UNCHANGED << broker_cmd, gui_cmd, loop_running >>

ScheduleStart ==
    /\ Runs("cmd", "schedule_start")
    /\ Install(ScheduleStartAsync(Taken, Head(ready)))
    /\ UNCHANGED << broker_cmd, gui_cmd, loop_running >>

SetPhaseShift ==
    /\ Runs("cmd", "set_phase_shift")
    /\ Install(SetPhaseShiftAsync(Taken, Head(ready)))
    /\ UNCHANGED << broker_cmd, gui_cmd, loop_running >>

Close ==
    /\ Runs("cmd", "close")
    /\ Install(CloseAsync(Taken, Head(ready)))
    /\ UNCHANGED << broker_cmd, gui_cmd, loop_running >>

RunScheduledStart ==
    /\ Runs("timer", "run_scheduled_start")
    /\ Install(RunScheduledStartStep([St EXCEPT !.ready = Tail(@)], Head(ready)))
    /\ UNCHANGED << broker_cmd, gui_cmd, loop_running >>

Initialize ==
    /\ Runs("init", "initialize")
    /\ Install(InitializeStep([St EXCEPT !.ready = Tail(@)], Head(ready)))
    /\ UNCHANGED << broker_cmd, gui_cmd, loop_running >>

PlayLoop ==
    /\ Runs("play", "play_loop")
    /\ Install(PlayLoopStep([St EXCEPT !.ready = Tail(@)], Head(ready)))
    /\ UNCHANGED << broker_cmd, gui_cmd, loop_running >>

-----------------------------------------------------------------------------
(* What the loop waits for *)

\* asyncio.sleep(delay_ms / 1000) of a start timer ends, at or after target_ms
StartSleepEnds ==
    \E t \in 1..Len(tasks) :
        /\ loop_running
        /\ tasks[t].kind = "timer" /\ tasks[t].wait = "sleep"
        /\ now >= tasks[t].target_ms
        /\ Install([St EXCEPT !.tasks[t].wait = "none", !.ready = Append(@, t)])
        /\ UNCHANGED << broker_cmd, gui_cmd, loop_running >>

\* asyncio.sleep(sleep_time) of the beat loop ends, at or after next_tick
BeatSleepEnds ==
    \E t \in 1..Len(tasks) :
        /\ loop_running
        /\ tasks[t].kind = "play" /\ tasks[t].wait = "sleep"
        /\ now >= tasks[t].next_tick
        /\ Install([St EXCEPT !.tasks[t].wait = "none", !.ready = Append(@, t)])
        /\ UNCHANGED << broker_cmd, gui_cmd, loop_running >>

\* an Actuator call (registry_and_initialize, play_dot, stop_all, close) ends
ActuatorCallEnds ==
    \E t \in 1..Len(tasks), r \in {"ok", "error"} :
        /\ loop_running
        /\ tasks[t].wait = "ext"
        /\ Install([St EXCEPT !.tasks[t].wait = "none", !.tasks[t].ext_result = r,
                              !.ready = Append(@, t)])
        /\ UNCHANGED << broker_cmd, gui_cmd, loop_running >>

\* the wall clock advances
Tick ==
    /\ loop_running
    /\ now < MaxTicks * TickMs
    /\ now' = now + TickMs
    /\ UNCHANGED << current_bpm, current_run, current_run_state,
           phase_shift_ms, pending_phase_shift_ms, session_phase_shift_delta_ms,
           last_payload_target_ms, last_target_ms, last_actual_ms, last_event,
           initialized, play_task, scheduled_start_task, current_schedule_id,
           store, tasks, ready, broker_cmd, gui_cmd, loop_running, superseded,
           store_writable, run_message, consumed_phase_shift_ms >>

Next ==
    \/ BrokerSetBpm \/ BrokerStop \/ BrokerScheduleStart \/ GuiSetPhaseShift
    \/ MainClose \/ LoopStop
    \/ SetBpm \/ Stop \/ ScheduleStart \/ SetPhaseShift \/ Close
    \/ RunScheduledStart \/ Initialize \/ PlayLoop
    \/ StartSleepEnds \/ BeatSleepEnds \/ ActuatorCallEnds \/ Tick

Spec == Init /\ [][Next]_vars

(* The same program with a ConfigStore whose database stops accepting writes     *)
(* (disk full, file made read-only): from then on save_phase_shift_ms raises.    *)
StoreWriteFails ==
    /\ loop_running /\ store_writable
    /\ store_writable' = FALSE
    /\ UNCHANGED << current_bpm, current_run, current_run_state,
           phase_shift_ms, pending_phase_shift_ms, session_phase_shift_delta_ms,
           last_payload_target_ms, last_target_ms, last_actual_ms, last_event,
           initialized, play_task, scheduled_start_task, current_schedule_id,
           store, now, tasks, ready, broker_cmd, gui_cmd, loop_running, superseded,
           run_message, consumed_phase_shift_ms >>

StoreFailsNext == Next \/ StoreWriteFails

SpecStoreFails == Init /\ [][StoreFailsNext]_vars

-----------------------------------------------------------------------------
(* The controller called directly: HapticsController.set_phase_shift with any    *)
(* integer, beside the UI, while starts are scheduled and fire.                  *)
ApiSetPhaseShift ==
    \E phase_shift \in PhaseShiftRequests :
        /\ MaySubmit /\ Idle(gui_cmd)
        /\ Submit("set_phase_shift", phase_shift)
        /\ gui_cmd' = Len(tasks) + 1
        /\ UNCHANGED << broker_cmd, loop_running >>

ControllerNext ==
    \/ ApiSetPhaseShift \/ GuiSetPhaseShift \/ BrokerScheduleStart
    \/ SetPhaseShift \/ ScheduleStart
    \/ RunScheduledStart \/ Initialize \/ PlayLoop
    \/ StartSleepEnds \/ BeatSleepEnds \/ ActuatorCallEnds \/ Tick

SpecController == Init /\ [][ControllerNext]_vars

-----------------------------------------------------------------------------
(* Starts that are already due, under a fair scheduler: the event loop steps     *)
(* every ready task and every Actuator call ends; the broker may stop sending at *)
(* any time.  The clock stands still, so a beat loop that sleeps stays asleep.   *)
DuePayloadInputs == {-5000}

BrokerScheduleStartDue ==
    \E payload_target_ms \in DuePayloadInputs :
        /\ MaySubmit /\ Idle(broker_cmd)
        /\ Submit("schedule_start", payload_target_ms)
        /\ broker_cmd' = Len(tasks) + 1
        /\ UNCHANGED << gui_cmd, loop_running >>

StartsProgress ==
    \/ ScheduleStart \/ RunScheduledStart \/ Initialize \/ PlayLoop
    \/ ActuatorCallEnds

StartsNext == BrokerScheduleStartDue \/ StartsProgress

SpecStartsFair == Init /\ [][StartsNext]_vars /\ WF_vars(StartsProgress)

-----------------------------------------------------------------------------
(* Callers that give up.  future.result(timeout=timeout) raises TimeoutError     *)
(* when the command is not done CALLER_TIMEOUT_MS after it was submitted;        *)
(* on_message catches it and returns, so the broker thread takes its next        *)
(* message.  The whole wait is one step here: the clock advances by the timeout  *)
(* while the event loop has not finished the command.                            *)

\* mutant of GiveUp: the caller's timeout cancels the command
GiveUpCancelling(s, c) ==
    Cancel([s EXCEPT !.tasks[c].caller_gave_up = TRUE,
                     !.now = @ + CALLER_TIMEOUT_MS], c)

\* future.result(timeout=timeout) raises: the future is left alone; history: the
\* command is marked
GiveUp(s, c) ==
    [s EXCEPT !.tasks[c].caller_gave_up = TRUE, !.now = @ + CALLER_TIMEOUT_MS]

BrokerCallTimesOut ==
    /\ loop_running /\ ~Idle(broker_cmd)
    /\ now + CALLER_TIMEOUT_MS <= MaxTimeouts * CALLER_TIMEOUT_MS
    /\ Install(GiveUp(St, broker_cmd))
    /\ broker_cmd' = NoTask
    /\ UNCHANGED << gui_cmd, loop_running >>

TimeoutsProgress ==
    \/ Stop \/ ScheduleStart \/ RunScheduledStart \/ Initialize \/ PlayLoop
    \/ BeatSleepEnds \/ ActuatorCallEnds

TimeoutsNext ==
    \/ BrokerStop \/ BrokerScheduleStartDue \/ BrokerCallTimesOut
    \/ TimeoutsProgress

SpecTimeoutsFair == Init /\ [][TimeoutsNext]_vars /\ WF_vars(TimeoutsProgress)

-----------------------------------------------------------------------------
(* The run topic.  A payload is a sequence of characters; an integer is a sign   *)
(* and its decimal digits without leading zeros (Python integers are unbounded). *)
Whitespace == {" ", "\t"}
DigitChars == << "0", "1", "2", "3", "4", "5", "6", "7", "8", "9" >>
UpperCase == << "A", "E", "F", "L", "N", "O", "P", "S", "T" >>
LowerCase == << "a", "e", "f", "l", "n", "o", "p", "s", "t" >>

IsDigit(ch) == \E d \in 1..10 : DigitChars[d] = ch
DigitValue(ch) == (CHOOSE d \in 1..10 : DigitChars[d] = ch) - 1

\* str.strip()
RECURSIVE LStrip(_)
LStrip(p) ==
    IF p = << >> THEN p
    ELSE IF Head(p) \in Whitespace THEN LStrip(Tail(p)) ELSE p

RECURSIVE RStrip(_)
RStrip(p) ==
    IF p = << >> THEN p
    ELSE IF p[Len(p)] \in Whitespace THEN RStrip(SubSeq(p, 1, Len(p) - 1)) ELSE p

Strip(p) == RStrip(LStrip(p))

\* str.lower()
LowerChar(ch) ==
    IF \E i \in 1..Len(UpperCase) : UpperCase[i] = ch
    THEN LowerCase[CHOOSE i \in 1..Len(UpperCase) : UpperCase[i] = ch]
    ELSE ch

Lower(p) == [i \in 1..Len(p) |-> LowerChar(p[i])]

\* {"0", "false", "off", "stop", "no"}, line 214
StopWords ==
    { << "0" >>, << "f", "a", "l", "s", "e" >>, << "o", "f", "f" >>,
      << "s", "t", "o", "p" >>, << "n", "o" >> }

Unsigned(p) == IF p # << >> /\ p[1] \in {"+", "-"} THEN Tail(p) ELSE p

\* int(text) accepts: an optional sign, then digits, single underscores between
\* digits allowed
IsIntLiteral(p) ==
    LET body == Unsigned(p) IN
    /\ body # << >>
    /\ \A i \in 1..Len(body) :
          \/ IsDigit(body[i])
          \/ /\ body[i] = "_" /\ 1 < i /\ i < Len(body)
             /\ IsDigit(body[i - 1]) /\ IsDigit(body[i + 1])

RECURSIVE DropLeadingZeros(_)
DropLeadingZeros(digits) ==
    IF Len(digits) > 1 /\ Head(digits) = 0 THEN DropLeadingZeros(Tail(digits))
    ELSE digits

\* int(text), for a text that IsIntLiteral
IntOf(p) ==
    LET body   == SelectSeq(Unsigned(p), IsDigit)
        digits == DropLeadingZeros([i \in 1..Len(body) |-> DigitValue(body[i])])
    IN  [neg |-> p[1] = "-" /\ digits # << 0 >>, digits |-> digits]

\* a < b for non-negative digit sequences without leading zeros
RECURSIVE DigitsLess(_, _)
DigitsLess(a, b) ==
    IF Len(a) # Len(b) THEN Len(a) < Len(b)
    ELSE IF a = << >> THEN FALSE
    ELSE IF Head(a) # Head(b) THEN Head(a) < Head(b)
    ELSE DigitsLess(Tail(a), Tail(b))

\* a < b
IntLess(a, b) ==
    IF a.neg /\ b.neg THEN DigitsLess(b.digits, a.digits)
    ELSE IF a.neg # b.neg THEN a.neg
    ELSE DigitsLess(a.digits, b.digits)

\* MIN_EPOCH_MS = 10**11
MIN_EPOCH_MS == [neg |-> FALSE, digits |-> << 1, 0, 0, 0, 0, 0, 0, 0, 0, 0, 0, 0 >>]

\* mutant of BelowMinEpoch: the timestamp 10**11 itself is rejected too
BelowMinEpochInclusive(publish_ms) ==
    IntLess(publish_ms, MIN_EPOCH_MS) \/ publish_ms = MIN_EPOCH_MS

\* publish_ms < MIN_EPOCH_MS, line 222
BelowMinEpoch(publish_ms) == IntLess(publish_ms, MIN_EPOCH_MS)

\* _parse_run_payload: the action and the timestamp, or the ValueError
ParseRunPayload(payload) ==
    LET normalized == Lower(Strip(payload))
        text       == Strip(payload)
    IN  IF normalized \in StopWords THEN [action |-> "stop", payload_target_ms |-> None]
        ELSE IF ~IsIntLiteral(text)
        THEN [action |-> "ValueError", payload_target_ms |-> None]
        ELSE IF BelowMinEpoch(IntOf(text))
        THEN [action |-> "ValueError", payload_target_ms |-> None]
        ELSE [action |-> "start", payload_target_ms |-> Some(IntOf(text))]

\* on_message, TOPIC_RUN: the controller command the message becomes
Dispatched(parsed) ==
    IF parsed.action = "stop" THEN "stop"
    ELSE IF parsed.action = "start" THEN "schedule_start"
    ELSE "none"

\* str(value) of publish.py, _publish_value
Str(value) ==
    (IF value.neg THEN << "-" >> ELSE << >>)
        \o [i \in 1..Len(value.digits) |-> DigitChars[value.digits[i] + 1]]

(* Inputs: what a publisher sends.  A timestamp or other integer in one of the   *)
(* spellings int() accepts, a stop word in some case, or other text; each with   *)
(* optional whitespace around it.                                                *)
EpochValues ==
    { [neg |-> FALSE, digits |-> << 1, 0, 0, 0, 0, 0, 0, 0, 0, 0, 0, 0 >>],
      [neg |-> FALSE, digits |-> << 1, 0, 0, 0, 0, 0, 0, 0, 0, 0, 0, 1 >>],
      [neg |-> FALSE, digits |-> << 1, 7, 6, 2, 3, 4, 5, 6, 7, 8, 9, 0, 1 >>] }
SmallValues ==
    { [neg |-> FALSE, digits |-> << 1 >>],
      [neg |-> FALSE, digits |-> << 9, 9, 9, 9, 9, 9, 9, 9, 9, 9, 9 >>],
      [neg |-> TRUE, digits |-> << 1 >>],
      [neg |-> TRUE, digits |-> << 1, 7, 6, 2, 3, 4, 5, 6, 7, 8, 9, 0, 1 >>] }
Spellings == {"str", "plus", "zero", "underscore"}
StopSpellings ==
    StopWords \cup { << "S", "T", "O", "P" >>, << "O", "f", "f" >>,
                     << "F", "A", "L", "S", "E" >>, << "N", "o" >> }
OtherTexts ==
    { << >>, << "s", "t", "a", "r", "t" >>, << "1", ".", "5" >>,
      << "1", "e", "1", "2" >>, << "-" >>, << "0", "0" >>, << "+", "0" >>,
      << "1", "_" >>, << "1", "_", "_", "0" >>, << "1", " ", "0" >> }
Paddings == { << >>, << " " >>, << "\t", " " >> }

\* the text of an integer in one of the spellings
Spell(value, spelling) ==
    LET sign   == IF value.neg THEN << "-" >> ELSE << >>
        digits == [i \in 1..Len(value.digits) |-> DigitChars[value.digits[i] + 1]]
    IN  CASE spelling = "str"  -> Str(value)
          [] spelling = "plus" -> (IF value.neg THEN sign ELSE << "+" >>) \o digits
          [] spelling = "zero" -> sign \o << "0" >> \o digits
          [] spelling = "underscore" ->
                sign \o << Head(digits) >> \o
                (IF Len(digits) > 1 THEN << "_" >> \o Tail(digits) ELSE << >>)

RunMessages ==
    { [kind |-> "integer", value |-> v, text |-> Spell(v, sp)] :
          v \in EpochValues \cup SmallValues, sp \in Spellings }
    \cup { [kind |-> "stop", value |-> None, text |-> w] : w \in StopSpellings }
    \cup { [kind |-> "other", value |-> None, text |-> t] : t \in OtherTexts }

\* on_message, TOPIC_RUN: payload = msg.payload.decode(...).strip(), then
\* _parse_run_payload and the dispatch; the command itself is not run here
OnMessageRun ==
    \E sent \in RunMessages, left \in Paddings, right \in Paddings :
        LET payload == Strip(left \o sent.text \o right)
            parsed  == ParseRunPayload(payload)
        IN  /\ loop_running
            /\ Install([St EXCEPT !.run_message =
                          Some([sent |-> sent, padded |-> left \o right # << >>,
                                parsed |-> parsed,
                                dispatched |-> Dispatched(parsed)])])
            /\ UNCHANGED << broker_cmd, gui_cmd, loop_running >>

ParserNext == OnMessageRun

SpecParser == Init /\ [][ParserNext]_vars

-----------------------------------------------------------------------------
(* Vocabulary of the properties *)

Tasks == 1..Len(tasks)
Timers == {t \in Tasks : tasks[t].kind = "timer"}
LiveTimers == {t \in Timers : tasks[t].result = "pending"}
LivePlayLoops == {t \in Tasks : tasks[t].kind = "play" /\ tasks[t].result = "pending"}
PlayTaskActive == IF play_task = NoTask THEN FALSE ELSE tasks[play_task].result = "pending"
StartTaskActive ==
    IF scheduled_start_task = NoTask THEN FALSE
    ELSE tasks[scheduled_start_task].result = "pending"

\* this step is the first step of command c / the step in which c returns / ends
Begins(c) == tasks[c].pc = "start" /\ tasks'[c].pc # "start"
Returns(c) == tasks[c].result = "pending" /\ tasks'[c].result = "ok"
Ends(c) == tasks[c].result = "pending" /\ tasks'[c].result # "pending"
\* no task other than c changes in this step, and none is created
OthersUnchanged(c) ==
    /\ Len(tasks') = Len(tasks)
    /\ \A t \in Tasks \ {c} : tasks'[t] = tasks[t]

-----------------------------------------------------------------------------
(* C1: when a Stop command returns, RunState = Stopped, the beat task (play_task)  *)
(* is not active and the start-timer task (scheduled_start_task) is not active.    *)
C1_StopReturnsStopped ==
    [][\A c \in Cmds :
          (tasks[c].op = "stop" /\ Returns(c)) =>
              /\ current_run_state' = "stopped"
              /\ ~PlayTaskActive'
              /\ ~StartTaskActive']_vars

(* C2: a superseded start timer never fires: the step in which it ends leaves      *)
(* RunState, last_actual_ms and play_task as they were and creates no task; and    *)
(* RunState becomes Running only by a timer that is not superseded, with run = 1   *)
(* (set by an accepted start after the last stop).                                 *)
C2_SupersededTimerNeverFires ==
    [][ /\ \A t \in Timers :
              (t \in superseded /\ Ends(t)) =>
                  /\ tasks'[t].pc # "fired"
                  /\ current_run_state' = current_run_state
                  /\ last_actual_ms' = last_actual_ms
                  /\ play_task' = play_task
                  /\ Len(tasks') = Len(tasks)
        /\ (current_run_state # "running" /\ current_run_state' = "running") =>
              /\ current_run = 1
              /\ \E t \in Timers \ superseded : Ends(t) /\ tasks'[t].pc = "fired"
      ]_vars

\* a superseded timer woke up, found its schedule_id stale and returned
C2_Witness ==
    \E t \in Timers : t \in superseded /\ tasks[t].pc = "ignored stale"

(* C3: when an accepted ScheduleStart(payload_target_ms) returns, RunState is      *)
(* Scheduled or Running, a start timer is armed, last_payload_target_ms is the     *)
(* payload and last_target_ms = payload - (PhaseShift + SessionDelta) as they      *)
(* were when the command was called.                                               *)
C3_AcceptedStartArmsTimer ==
    [][\A c \in Cmds :
          (tasks[c].op = "schedule_start" /\ Returns(c) /\ tasks'[c].accepted) =>
              /\ current_run_state' \in {"scheduled", "running"}
              /\ StartTaskActive'
              /\ last_payload_target_ms' = Some(tasks[c].arg)
              /\ last_target_ms' = Some(tasks[c].arg - tasks'[c].eff_at_call)]_vars

\* an accepted start has returned with a non-zero effective phase shift
C3_Witness ==
    \E c \in Cmds :
        /\ tasks[c].op = "schedule_start" /\ tasks[c].result = "ok" /\ tasks[c].accepted
        /\ tasks[c].eff_at_call # 0
        /\ last_target_ms = Some(tasks[c].arg - tasks[c].eff_at_call)

(* C4: a ScheduleStart whose lag now - (payload - (PhaseShift + SessionDelta)) is  *)
(* above 5000 ms changes last_event only, to the stale-start text; a lag of 5000   *)
(* ms or less is accepted (run = 1, ScheduleId advanced).                          *)
C4_StaleStartRejected ==
    [][\A c \in Cmds :
          (tasks[c].op = "schedule_start" /\ Begins(c)) =>
              LET lag_ms == now - (tasks[c].arg
                                   - (phase_shift_ms + session_phase_shift_delta_ms))
              IN  IF lag_ms > 5000
                  THEN /\ last_event' = "ignored stale start timestamp"
                       /\ tasks'[c].result = "ok" /\ ~tasks'[c].accepted
                       /\ OthersUnchanged(c)
                       /\ UNCHANGED << current_run_state, current_run,
                              current_schedule_id, scheduled_start_task, play_task,
                              last_payload_target_ms, last_target_ms, last_actual_ms,
                              phase_shift_ms, session_phase_shift_delta_ms,
                              pending_phase_shift_ms, current_bpm, initialized, store >>
                  ELSE /\ tasks'[c].accepted
                       /\ current_run' = 1
                       /\ current_schedule_id' = current_schedule_id + 1]_vars

\* a start with a lag of 5001 ms was rejected after one with a lag of 5000 ms was accepted
C4_Witness ==
    /\ last_event = "ignored stale start timestamp"
    /\ now = 0
    /\ \E c \in Cmds : /\ tasks[c].op = "schedule_start" /\ tasks[c].result = "ok"
                        /\ ~tasks[c].accepted
                        /\ now - (tasks[c].arg - tasks[c].eff_at_call) = 5001
    /\ \E c \in Cmds : /\ tasks[c].op = "schedule_start" /\ tasks[c].accepted
                        /\ now - tasks[c].target_ms = 5000

(* C5: commands are applied one at a time in enqueue order: a command enqueued    *)
(* later takes its first step only when every command enqueued before it has       *)
(* ended, so it never runs between the first and the last step of an earlier one.  *)
C5_CommandsSerialized ==
    [][\A c1, c2 \in Cmds :
          (c1 < c2 /\ tasks[c1].result = "pending") => ~Begins(c2)]_vars

(* C6: an accepted ScheduleStart issued while a beat loop is running cancels the   *)
(* beat task: when it returns no beat task is active.                              *)
C6_StartWhileRunningRestarts ==
    [][\A c \in Cmds :
          (tasks[c].op = "schedule_start" /\ Returns(c) /\ tasks'[c].accepted) =>
              /\ ~PlayTaskActive'
              /\ LivePlayLoops' = {}]_vars

(* C7: the only changes of RunState are Stopped->Scheduled, Scheduled->Running,    *)
(* Scheduled->Stopped and Running->Stopped.                                        *)
C7_RunStateTransitions ==
    [][current_run_state' # current_run_state =>
          << current_run_state, current_run_state' >> \in
              { << "stopped", "scheduled" >>, << "scheduled", "running" >>,
                << "scheduled", "stopped" >>, << "running", "stopped" >> }]_vars

(* C7 as amended: the four changes above and Running->Scheduled (an accepted       *)
(* ScheduleStart while Running); never Stopped->Running.                           *)
C7_RunStateTransitionsAmended ==
    [][current_run_state' # current_run_state =>
          << current_run_state, current_run_state' >> \in
              { << "stopped", "scheduled" >>, << "scheduled", "running" >>,
                << "scheduled", "stopped" >>, << "running", "stopped" >>,
                << "running", "scheduled" >> }]_vars

\* RunState went from Running to Scheduled: no Stop or Close was ever called, a beat
\* loop runs and RunState is Scheduled
C7_Witness ==
    /\ current_run_state = "scheduled"
    /\ PlayTaskActive
    /\ \A c \in Cmds : tasks[c].op \notin {"stop", "close"}

(* C8: at most one beat-loop task and at most one start-timer task is active.      *)
C8_AtMostOneTaskOfEachKind ==
    Cardinality(LivePlayLoops) <= 1 /\ Cardinality(LiveTimers) <= 1

(* C9: every Stop commits the session phase shift: with PhaseShift = p and         *)
(* SessionDelta = d when the Stop is called, after it PhaseShift = p + d,          *)
(* SessionDelta = 0, PendingDelta = 0 and, when d # 0, the ConfigStore holds p + d *)
(* (it is not written when d = 0), whatever stop_all did.  Stated for a Stop that  *)
(* no later command overtakes: none enqueued after it has begun when it ends.      *)
C9_StopCommitsPhaseShift ==
    [][\A c \in Cmds :
          (/\ tasks[c].op = "stop" /\ Ends(c)
           /\ \A c2 \in Cmds : c2 > c => tasks'[c2].pc = "start") =>
              LET p == tasks'[c].phase_at_call
                  d == tasks'[c].delta_at_call
              IN  /\ phase_shift_ms' = p + d
                  /\ session_phase_shift_delta_ms' = 0
                  /\ pending_phase_shift_ms' = 0
                  /\ store' = (IF d # 0 THEN Some(p + d) ELSE store)]_vars

(* C10: SetPhaseShift(v), v in [-2000, 2000], while the beat loop is running adds  *)
(* delta = v - (PhaseShift + SessionDelta) to PendingDelta and to SessionDelta and *)
(* leaves PhaseShift, the ConfigStore, RunState, ScheduleId and both tasks alone.  *)
C10_SetPhaseShiftWhileRunningStages ==
    [][\A c \in Cmds :
          (/\ tasks[c].op = "set_phase_shift" /\ Begins(c)
           /\ tasks[c].arg >= -2000 /\ tasks[c].arg <= 2000
           /\ PlayTaskActive) =>
              LET delta == tasks[c].arg - (phase_shift_ms + session_phase_shift_delta_ms)
              IN  /\ pending_phase_shift_ms' = pending_phase_shift_ms + delta
                  /\ session_phase_shift_delta_ms' = session_phase_shift_delta_ms + delta
                  /\ phase_shift_ms' + session_phase_shift_delta_ms' = tasks[c].arg
                  /\ tasks'[c].result = "ok"
                  /\ OthersUnchanged(c)
                  /\ UNCHANGED << phase_shift_ms, store, current_run_state, current_run,
                         current_schedule_id, play_task, scheduled_start_task >>]_vars

\* two requests were staged before the next beat: 0 -> 200 -> 2000
C10_Witness ==
    /\ PlayTaskActive
    /\ pending_phase_shift_ms = 2000
    /\ \E c1, c2 \in Cmds :
          /\ tasks[c1].op = "set_phase_shift" /\ tasks[c1].result = "ok"
          /\ tasks[c1].arg = 200 /\ tasks[c1].eff_at_call = 0
          /\ tasks[c2].op = "set_phase_shift" /\ tasks[c2].result = "ok"
          /\ tasks[c2].arg = 2000 /\ tasks[c2].eff_at_call = 200

(* C11: SetPhaseShift(v), v in [-2000, 2000], while no beat loop is running        *)
(* (RunState Stopped or Scheduled) sets PhaseShift = v, SessionDelta = 0 and       *)
(* PendingDelta = 0 and writes v to the ConfigStore: the effective shift is v.     *)
C11_SetPhaseShiftWhileNotRunningApplies ==
    [][\A c \in Cmds :
          (/\ tasks[c].op = "set_phase_shift" /\ Begins(c)
           /\ tasks[c].arg >= -2000 /\ tasks[c].arg <= 2000
           /\ ~PlayTaskActive) =>
              /\ phase_shift_ms' = tasks[c].arg
              /\ session_phase_shift_delta_ms' = 0
              /\ pending_phase_shift_ms' = 0
              /\ store' = Some(tasks[c].arg)
              /\ phase_shift_ms' + session_phase_shift_delta_ms' = tasks[c].arg]_vars

\* SetPhaseShift(200) was applied while Scheduled, with 0 stored before
C11_Witness ==
    /\ current_run_state = "scheduled" /\ ~PlayTaskActive
    /\ phase_shift_ms = 200 /\ store = Some(200)
    /\ \E c \in Cmds : /\ tasks[c].op = "set_phase_shift" /\ tasks[c].result = "ok"
                        /\ tasks[c].arg = 200 /\ tasks[c].phase_at_call = 0

(* C12: SetPhaseShift(v) accepted while a start timer is pending (RunState         *)
(* Scheduled, last_payload_target_ms recorded) cancels the armed timer and begins  *)
(* a reschedule to last_payload_target_ms - v; when it returns a timer is armed    *)
(* with that target and last_target_ms equals it.                                  *)
C12_SetPhaseShiftWhileScheduledReschedules ==
    [][\A c \in Cmds :
          /\ (/\ tasks[c].op = "set_phase_shift" /\ Begins(c)
               /\ tasks[c].arg >= -2000 /\ tasks[c].arg <= 2000
               /\ current_run_state = "scheduled" /\ StartTaskActive
               /\ last_payload_target_ms # None) =>
                  /\ scheduled_start_task \in superseded'
                  /\ tasks'[c].accepted
                  /\ tasks'[c].target_ms = last_payload_target_ms[1] - tasks[c].arg
          /\ (/\ tasks[c].op = "set_phase_shift" /\ Returns(c)
               /\ tasks'[c].accepted) =>
                  /\ StartTaskActive'
                  /\ tasks'[scheduled_start_task'].target_ms
                         = last_payload_target_ms'[1] - tasks[c].arg
                  /\ last_target_ms' = Some(last_payload_target_ms'[1] - tasks[c].arg)
      ]_vars

(* C12 as amended: the reschedule happens when no beat task is active and the      *)
(* re-computed target last_payload_target_ms - v is not stale (lag <= 5000 ms);    *)
(* when it is stale, v is applied and saved but the armed timer, ScheduleId and    *)
(* last_target_ms stay as they were.                                               *)
C12_SetPhaseShiftWhileScheduledReschedulesAmended ==
    [][\A c \in Cmds :
          /\ (/\ tasks[c].op = "set_phase_shift" /\ Begins(c)
               /\ tasks[c].arg >= -2000 /\ tasks[c].arg <= 2000
               /\ ~PlayTaskActive /\ StartTaskActive
               /\ last_payload_target_ms # None) =>
                  IF now - (last_payload_target_ms[1] - tasks[c].arg) <= 5000
                  THEN /\ scheduled_start_task \in superseded'
                       /\ tasks'[c].accepted
                       /\ tasks'[c].target_ms = last_payload_target_ms[1] - tasks[c].arg
                       /\ current_schedule_id' = current_schedule_id + 1
                  ELSE /\ ~tasks'[c].accepted /\ tasks'[c].result = "ok"
                       /\ phase_shift_ms' = tasks[c].arg
                       /\ store' = Some(tasks[c].arg)
                       /\ OthersUnchanged(c)
                       /\ UNCHANGED << scheduled_start_task, current_schedule_id,
                              last_target_ms, last_payload_target_ms, current_run_state >>
          /\ (/\ tasks[c].op = "set_phase_shift" /\ Returns(c)
               /\ tasks'[c].accepted) =>
                  /\ StartTaskActive'
                  /\ tasks'[scheduled_start_task'].target_ms
                         = last_payload_target_ms'[1] - tasks[c].arg
                  /\ last_target_ms' = Some(last_payload_target_ms'[1] - tasks[c].arg)
      ]_vars

\* SetPhaseShift(200) has rescheduled a pending start: the old timer was cancelled
\* and the armed timer's target is the payload minus 200
C12_Witness ==
    \E c \in Cmds :
        /\ tasks[c].op = "set_phase_shift" /\ tasks[c].result = "ok"
        /\ tasks[c].accepted /\ tasks[c].arg = 200 /\ tasks[c].phase_at_call = 0
        /\ StartTaskActive
        /\ tasks[scheduled_start_task].target_ms = last_payload_target_ms[1] - 200
        /\ last_target_ms = Some(last_payload_target_ms[1] - 200)
        /\ \E t \in Timers : t \in superseded /\ tasks[t].result = "cancelled"

(* C13: the ConfigStore value of phase_shift_ms (absent read as 0) equals the      *)
(* in-memory PhaseShift in every state, hence whenever no command is in progress;  *)
(* the stored value is changed only by a Stop or Close committing a non-zero       *)
(* SessionDelta and by the first step of a SetPhaseShift while no beat task is     *)
(* active, never by SetBpm, ScheduleStart, a timer, a beat or a staged             *)
(* SetPhaseShift.                                                                  *)
C13_StoreMatchesPhaseShift ==
    /\ [](phase_shift_ms = (IF store = None THEN 0 ELSE store[1]))
    /\ [][store' # store =>
            /\ ready # << >>
            /\ LET c == Head(ready) IN
               /\ tasks[c].kind = "cmd"
               /\ \/ /\ tasks[c].op \in {"stop", "close"}
                     /\ session_phase_shift_delta_ms # 0
                     /\ store' = Some(phase_shift_ms + session_phase_shift_delta_ms)
                  \/ /\ tasks[c].op = "set_phase_shift" /\ Begins(c)
                     /\ ~PlayTaskActive
                     /\ store' = Some(tasks[c].arg)]_vars

\* no command is in progress and a Stop has committed a SessionDelta of 200: the
\* store and PhaseShift both hold 200
C13_Witness ==
    /\ \A c \in Cmds : tasks[c].result # "pending"
    /\ store = Some(200) /\ phase_shift_ms = 200
    /\ \E c \in Cmds : /\ tasks[c].op = "stop" /\ tasks[c].result = "ok"
                        /\ tasks[c].delta_at_call = 200 /\ tasks[c].phase_at_call = 0

(* C14: the controller's SetPhaseShift clamps its argument: SetPhaseShift(v) for   *)
(* any integer v is applied as SetPhaseShift(min(max(v, -2000), 2000)): it does    *)
(* not fail and the effective phase shift becomes the clamped value.               *)
C14_ControllerClampsPhaseShift ==
    [][\A c \in Cmds :
          (tasks[c].op = "set_phase_shift" /\ Begins(c)) =>
              /\ tasks'[c].result # "error"
              /\ phase_shift_ms' + session_phase_shift_delta_ms'
                    = (IF tasks[c].arg < -2000 THEN -2000
                       ELSE IF tasks[c].arg > 2000 THEN 2000 ELSE tasks[c].arg)]_vars

(* C14 as amended: the UI clamps what the operator entered before it calls the     *)
(* controller, so an entry e takes effect as min(max(e, -2000), 2000); the         *)
(* controller's command itself rejects an argument outside [-2000, 2000] with an   *)
(* error and changes nothing.                                                      *)
C14_UiClampsControllerRejects ==
    [][\A c \in Cmds :
          (tasks[c].op = "set_phase_shift" /\ Begins(c)) =>
              /\ tasks[c].requested # None =>
                    /\ tasks'[c].result # "error"
                    /\ phase_shift_ms' + session_phase_shift_delta_ms'
                          = (IF tasks[c].requested[1] < -2000 THEN -2000
                             ELSE IF tasks[c].requested[1] > 2000 THEN 2000
                             ELSE tasks[c].requested[1])
              /\ (tasks[c].arg < -2000 \/ tasks[c].arg > 2000) =>
                    /\ tasks'[c].result = "error"
                    /\ OthersUnchanged(c)
                    /\ UNCHANGED << phase_shift_ms, session_phase_shift_delta_ms,
                           pending_phase_shift_ms, store, current_run_state,
                           current_run, current_schedule_id, play_task,
                           scheduled_start_task, last_payload_target_ms,
                           last_target_ms, last_actual_ms, last_event, current_bpm >>
      ]_vars

\* an entry of 3000 in the UI took effect as 2000, and a direct call with 3000 was
\* rejected
C14_Witness ==
    /\ phase_shift_ms + session_phase_shift_delta_ms = 2000
    /\ \E c \in Cmds : /\ tasks[c].op = "set_phase_shift" /\ tasks[c].result = "ok"
                        /\ tasks[c].requested = Some(3000) /\ tasks[c].arg = 2000
    /\ \E c \in Cmds : /\ tasks[c].op = "set_phase_shift" /\ tasks[c].result = "error"
                        /\ tasks[c].requested = None /\ tasks[c].arg = 3000

(* C15: a delta d staged by SetPhaseShift while the beat loop sleeps until its     *)
(* scheduled tick T moves the next beat to T - d: the beat that consumes d is      *)
(* played at T - d, hence, whatever the scheduler's quantum, before T when d > 0   *)
(* and not before T - d when d < 0.                                                *)
C15_NextBeatShifted ==
    [][\A t \in Tasks :
          (/\ tasks[t].kind = "play" /\ tasks[t].pc = "sleep"
           /\ tasks'[t].pc = "play_dot"
           /\ pending_phase_shift_ms # 0) =>
              LET T == tasks[t].next_tick
                  d == pending_phase_shift_ms
              IN  /\ d > 0 => now < T
                  /\ d < 0 => now >= T - d]_vars

C17_AcceptedStartEventuallyRuns ==
    (LiveTimers \ superseded # {})
        ~> \/ /\ current_run_state = "running" /\ PlayTaskActive
              /\ last_actual_ms # None
           \/ \E i \in Tasks : tasks[i].kind = "init" /\ tasks[i].result = "error"

(* C18: a failure of Actuator.play during a beat does not end playback: when the  *)
(* beat loop is resumed from a play_dot call that raised, RunState is unchanged,   *)
(* the beat task is still active and it goes on to its next beat.                  *)
C18_PlayFailureKeepsPlaying ==
    [][ ( /\ PlayLoop
          /\ tasks[Head(ready)].pc = "play_dot"
          /\ tasks[Head(ready)].ext_result = "error"
          /\ ~tasks[Head(ready)].must_cancel )
        => /\ current_run_state' = current_run_state
           /\ tasks'[Head(ready)].result = "pending"
           /\ tasks'[Head(ready)].pc \in {"sleep", "play_dot"} ]_vars

(* C19: if the Actuator initialisation fails for a scheduled start, then when the *)
(* timer of the current schedule reaches its fire point and ends with that         *)
(* failure, RunState is Stopped, no beat loop is spawned and ScheduleId keeps the  *)
(* value the ScheduleStart gave it.                                                *)
C19_InitFailureReturnsToStopped ==
    [][ ( /\ RunScheduledStart
          /\ tasks[Head(ready)].schedule_id = current_schedule_id
          /\ tasks'[Head(ready)].result = "error" )
        => /\ current_run_state' = "stopped"
           /\ play_task' = play_task
           /\ current_schedule_id' = current_schedule_id ]_vars

(* C20: a ConfigStore write failure is not fatal.  When the write of a Stop's     *)
(* commit fails, afterwards PhaseShift is the old PhaseShift plus SessionDelta,    *)
(* SessionDelta and PendingDelta are 0, RunState is Stopped and neither task is    *)
(* active; when the write of a SetPhaseShift applied while not running fails, the  *)
(* in-memory PhaseShift is the requested value and a pending start is still        *)
(* rescheduled (its ScheduleStart is evaluated: accepted, or ignored as stale).    *)
C20_StopCommitSurvivesWriteFailure ==
    ( /\ Stop
      /\ ~store_writable
      /\ session_phase_shift_delta_ms # 0
      /\ tasks'[Head(ready)].result # "pending"
      /\ tasks[Head(ready)].ext_result = "ok" )
    => /\ phase_shift_ms' = phase_shift_ms + session_phase_shift_delta_ms
       /\ session_phase_shift_delta_ms' = 0
       /\ pending_phase_shift_ms' = 0
       /\ current_run_state' = "stopped"
       /\ ~PlayTaskActive' /\ ~StartTaskActive'

C20_SetPhaseShiftSurvivesWriteFailure ==
    ( /\ SetPhaseShift
      /\ ~store_writable
      /\ tasks[Head(ready)].pc = "start"
      /\ tasks[Head(ready)].arg >= PHASE_SHIFT_MIN_MS
      /\ tasks[Head(ready)].arg <= PHASE_SHIFT_MAX_MS
      /\ ~PlayTaskActive )
    => /\ phase_shift_ms' = tasks[Head(ready)].arg
       /\ (StartTaskActive /\ last_payload_target_ms # None)
             => \/ current_schedule_id' = current_schedule_id + 1
                \/ last_event' = "ignored stale start timestamp"

C20_WriteFailureIsNotFatal ==
    [][ C20_StopCommitSurvivesWriteFailure
        /\ C20_SetPhaseShiftSurvivesWriteFailure ]_vars

(* C21: every Stop that returns to its caller has invoked Actuator.stop_all and    *)
(* stop_all has returned, also when the Actuator was never initialised; and when   *)
(* Stop invokes stop_all, no start timer and no beat task is still active.         *)
C21_StopReturnsAfterStopAll ==
    [][ /\ ( Stop /\ tasks'[Head(ready)].result = "ok" )
            => /\ tasks[Head(ready)].pc = "stop_all"
               /\ tasks[Head(ready)].ext_result = "ok"
        /\ ( Stop /\ tasks[Head(ready)].pc # "stop_all"
                  /\ tasks'[Head(ready)].pc = "stop_all" )
            => LiveTimers' = {} /\ LivePlayLoops' = {} ]_vars

(* C22: Close has Stop semantics plus device release.  Its first step makes       *)
(* RunState Stopped and increments ScheduleId; when it completes RunState is       *)
(* Stopped, neither task is active, SessionDelta (d when called, PhaseShift p) is  *)
(* committed to PhaseShift and, when d # 0, to the ConfigStore, and the Actuator   *)
(* is uninitialised; stop_all and close are invoked only on an initialised         *)
(* Actuator.                                                                       *)
C22_CloseStopsAndReleases ==
    [][\A c \in Cmds : tasks[c].op = "close" =>
          /\ Begins(c) => /\ current_schedule_id' = current_schedule_id + 1
                          /\ current_run_state' = "stopped"
          /\ (tasks'[c].pc \in {"stop_all", "close"} /\ tasks'[c].pc # tasks[c].pc)
                => initialized
          /\ Ends(c) =>
                LET p == tasks'[c].phase_at_call
                    d == tasks'[c].delta_at_call
                IN  /\ current_run_state' = "stopped"
                    /\ ~PlayTaskActive' /\ ~StartTaskActive'
                    /\ phase_shift_ms' = p + d
                    /\ session_phase_shift_delta_ms' = 0
                    /\ d # 0 => store' = Some(p + d)
                    /\ ~initialized' ]_vars

(* C23: a command whose caller gave up after its timeout is not cancelled: the    *)
(* timeout leaves the command's task and the ready queue as they were and frees    *)
(* the caller for its next message, and the command still runs to its end on the   *)
(* event loop (it is never cancelled).                                             *)
GaveUp == {c \in Cmds : tasks[c].caller_gave_up}

C23_TimeoutLeavesCommandAlone ==
    BrokerCallTimesOut =>
        /\ tasks' = [tasks EXCEPT ![broker_cmd].caller_gave_up = TRUE]
        /\ ready' = ready
        /\ loop_running' /\ Idle(broker_cmd)'

C24_RunPayloadClassified ==
    run_message # None =>
        LET m == run_message[1] IN
        CASE m.sent.kind = "stop" ->
                /\ m.parsed = [action |-> "stop", payload_target_ms |-> None]
                /\ m.dispatched = "stop"
          [] m.sent.kind = "integer" /\ m.sent.value \in EpochValues ->
                /\ m.parsed = [action |-> "start",
                               payload_target_ms |-> Some(m.sent.value)]
                /\ m.dispatched = "schedule_start"
          [] m.sent.kind = "integer" /\ m.sent.value \in SmallValues ->
                m.parsed.action = "ValueError" /\ m.dispatched = "none"
          [] m.sent.kind = "other" ->
                m.parsed.action = "ValueError" /\ m.dispatched = "none"

C24_Witness ==
    /\ run_message # None
    /\ run_message[1].padded
    /\ run_message[1].sent.text = Str(MIN_EPOCH_MS)
    /\ run_message[1].parsed.payload_target_ms = Some(MIN_EPOCH_MS)

(* C25: SetBpm(b) with b > 0 sets BPM to b and changes nothing else but          *)
(* last_event; SetBpm(b) with b <= 0 is rejected with the whole controller state   *)
(* unchanged; BPM starts at 120 and is positive in every reachable state.          *)
C25_SetBpmStep ==
    \A c \in Cmds :
        (tasks[c].op = "set_bpm" /\ Begins(c)) =>
            /\ OthersUnchanged(c)
            /\ UNCHANGED << current_run, current_run_state, current_schedule_id,
                            play_task, scheduled_start_task, initialized,
                            phase_shift_ms, pending_phase_shift_ms,
                            session_phase_shift_delta_ms, store,
                            last_payload_target_ms, last_target_ms, last_actual_ms >>
            /\ IF tasks[c].arg > 0
               THEN current_bpm' = tasks[c].arg /\ tasks'[c].result = "ok"
               ELSE /\ UNCHANGED << current_bpm, last_event >>
                    /\ tasks'[c].result = "error"

C25_SetBpmOnlySetsBpm ==
    /\ current_bpm = 120
    /\ [](current_bpm > 0)
    /\ [][C25_SetBpmStep]_vars

C25_Witness ==
    /\ current_bpm = 60 /\ current_run_state = "running" /\ PlayTaskActive
    /\ \E c \in Cmds : tasks[c].op = "set_bpm" /\ tasks[c].arg = 0
                        /\ tasks[c].result = "error"

(* C26: ScheduleStart never commits or alters the calibration: every step of a    *)
(* ScheduleStart, accepted or rejected, leaves PhaseShift, SessionDelta,           *)
(* PendingDelta and the ConfigStore value unchanged, and the target of an accepted *)
(* start is the payload minus PhaseShift + SessionDelta, staged delta included.    *)
C26_ScheduleStartStep ==
    ScheduleStart =>
        /\ UNCHANGED << phase_shift_ms, session_phase_shift_delta_ms,
                        pending_phase_shift_ms, store >>
        /\ (tasks[Head(ready)].pc = "start" /\ tasks'[Head(ready)].accepted)
              => tasks'[Head(ready)].target_ms =
                    tasks[Head(ready)].arg
                       - (phase_shift_ms + session_phase_shift_delta_ms)

C26_ScheduleStartKeepsCalibration == [][C26_ScheduleStartStep]_vars

C26_Witness ==
    \E c \in Cmds :
        /\ tasks[c].op = "schedule_start" /\ tasks[c].accepted
        /\ tasks[c].result = "ok"
        /\ tasks[c].delta_at_call = 200
        /\ tasks[c].target_ms = tasks[c].arg - 200
        /\ session_phase_shift_delta_ms = 200 /\ phase_shift_ms = 0

(* C27: BPM is live-adjustable without restarting playback: SetBpm leaves the     *)
(* beat task as it is, every beat-loop iteration takes the period 60000/BPM of the *)
(* BPM current when it begins, and after its beat next_tick advances by that       *)
(* period (by whole periods when catching up; a shift consumed by the iteration    *)
(* that follows in the same step is subtracted).                                   *)
C27_BeatLoopStep ==
    LET t == Head(ready) IN
    /\ (SetBpm /\ play_task # NoTask)
          => play_task' = play_task /\ tasks'[play_task] = tasks[play_task]
    /\ (PlayLoop /\ tasks'[t].pc = "play_dot")
          => tasks'[t].beat_interval = 60000 \div current_bpm
    /\ (PlayLoop /\ tasks[t].pc = "play_dot" /\ tasks'[t].pc = "sleep")
          => tasks'[t].next_tick = tasks[t].next_tick + tasks[t].beat_interval
    /\ (PlayLoop /\ tasks[t].pc = "play_dot" /\ tasks'[t].pc = "play_dot")
          => \E k \in 1..20 :
                tasks'[t].next_tick + pending_phase_shift_ms
                    = tasks[t].next_tick + k * tasks[t].beat_interval

C27_BpmLiveAdjustable == [][C27_BeatLoopStep]_vars

C27_Witness ==
    /\ current_bpm = 60 /\ PlayTaskActive
    /\ tasks[play_task].pc = "play_dot"
    /\ tasks[play_task].next_tick = 500
    /\ tasks[play_task].beat_interval = 1000

(* C28: ScheduleId starts at 0 and never decreases.  It increases by exactly 1 in *)
(* the first step of every Stop, of every Close and of every accepted              *)
(* ScheduleStart, the reschedule of a SetPhaseShift while Scheduled included; no   *)
(* other step changes it: not SetBpm, a rejected stale ScheduleStart, a            *)
(* SetPhaseShift while Stopped or Running, a timer or a beat.                      *)
C28_ScheduleIdStep ==
    LET c    == Head(ready)
        inc  == current_schedule_id' = current_schedule_id + 1
        same == current_schedule_id' = current_schedule_id
    IN  /\ inc \/ same
        /\ (Stop \/ Close) => IF tasks[c].pc = "start" THEN inc ELSE same
        /\ ScheduleStart =>
              IF tasks[c].pc = "start" /\ tasks'[c].accepted THEN inc ELSE same
        /\ SetPhaseShift =>
              IF tasks[c].pc = "start" /\ tasks'[c].accepted
              THEN inc /\ StartTaskActive /\ ~PlayTaskActive
              ELSE same
        /\ ( SetBpm \/ RunScheduledStart \/ Initialize \/ PlayLoop \/ StartSleepEnds
             \/ BeatSleepEnds \/ ActuatorCallEnds \/ Tick ) => same

C28_ScheduleIdCounts ==
    /\ current_schedule_id = 0
    /\ [][C28_ScheduleIdStep]_vars

C28_Witness ==
    /\ current_schedule_id = 3
    /\ \E c1, c2, c3 \in Cmds :
          /\ tasks[c1].op = "schedule_start" /\ tasks[c1].accepted
          /\ tasks[c2].op = "set_phase_shift" /\ tasks[c2].accepted
          /\ tasks[c3].op = "stop" /\ tasks[c3].result = "ok"

(* C29: in the beat loop next_tick never decreases from one step to the next,     *)
(* except in the step that consumes a non-zero PendingDelta, where it changes by    *)
(* exactly minus the consumed shift; every other update adds a positive period     *)
(* (whole periods when catching up), and no step of another task changes it.       *)
C29_NextTickStep ==
    \A t \in LivePlayLoops :
        (tasks'[t].result = "pending" /\ tasks[t].pc # "start") =>
            LET before == tasks[t].next_tick
                after  == tasks'[t].next_tick
                period == tasks[t].beat_interval
                shift  == pending_phase_shift_ms
            IN  IF ~(PlayLoop /\ Head(ready) = t) THEN after = before
                ELSE IF tasks[t].pc = "sleep"
                THEN after = before - shift /\ pending_phase_shift_ms' = 0
                ELSE IF tasks'[t].pc = "sleep"
                THEN after = before + period /\ period > 0
                ELSE /\ period > 0 /\ pending_phase_shift_ms' = 0
                     /\ \E k \in 1..20 : after = before + k * period - shift

C29_NextTickMonotone == [][C29_NextTickStep]_vars

C29_Witness ==
    /\ PlayTaskActive
    /\ tasks[play_task].pc = "play_dot"
    /\ tasks[play_task].next_tick = 300
    /\ session_phase_shift_delta_ms = 200 /\ pending_phase_shift_ms = 0

(* C30: when the beat loop has fallen behind it advances next_tick by whole       *)
(* periods until next_tick > now and then waits until next_tick before playing     *)
(* again: whenever the loop calls play_dot, the time is not before the next_tick   *)
(* it had before consuming a pending shift.                                        *)
C30_NoBeatBeforeNextTick ==
    [][ ( /\ PlayLoop
          /\ tasks'[Head(ready)].result = "pending"
          /\ tasks'[Head(ready)].pc = "play_dot" )
        => now >= tasks'[Head(ready)].next_tick + pending_phase_shift_ms ]_vars

-----------------------------------------------------------------------------
\* C31: the beat loop's read-and-clear of the pending shift is atomic with respect
\* to set_phase_shift: no staged delta is lost or applied twice.  At every instant
\* the shifts the beat loop has consumed since the session delta was last cleared,
\* plus the pending shift, equal the session delta; and the three only ever change
\* together: by a staged delta while a beat loop is active, by the beat loop taking
\* the whole pending shift, or by a commit or a direct update clearing them all.
C31_Balance ==
    consumed_phase_shift_ms + pending_phase_shift_ms = session_phase_shift_delta_ms

C31_Step ==
    (\/ pending_phase_shift_ms' # pending_phase_shift_ms
     \/ session_phase_shift_delta_ms' # session_phase_shift_delta_ms
     \/ consumed_phase_shift_ms' # consumed_phase_shift_ms)
    => \/ /\ SetPhaseShift /\ PlayTaskActive
          /\ consumed_phase_shift_ms' = consumed_phase_shift_ms
          /\ pending_phase_shift_ms' - pending_phase_shift_ms
               = session_phase_shift_delta_ms' - session_phase_shift_delta_ms
       \/ /\ PlayLoop
          /\ pending_phase_shift_ms' = 0
          /\ consumed_phase_shift_ms' = consumed_phase_shift_ms + pending_phase_shift_ms
          /\ session_phase_shift_delta_ms' = session_phase_shift_delta_ms
       \/ /\ SetPhaseShift \/ Stop \/ Close
          /\ pending_phase_shift_ms' = 0
          /\ session_phase_shift_delta_ms' = 0
          /\ consumed_phase_shift_ms' = 0

C31_PendingShiftConsumedOnce == []C31_Balance /\ [][C31_Step]_vars

\* a staged shift has been consumed by the beat loop and another one is pending
C31_Witness ==
    /\ PlayTaskActive
    /\ consumed_phase_shift_ms # 0
    /\ pending_phase_shift_ms # 0
    /\ C31_Balance

-----------------------------------------------------------------------------
\* C32: cancelling a pending start (by stop, close or a superseding start) cancels
\* its sleep and its in-flight initialization.  When the command's wait for the
\* timer it cancelled ends, the timer is over and so is the initialization task it
\* created; no timer that is over has left its initialization task running; and an
\* initialization cancelled while the Actuator call was in flight leaves the
\* Actuator marked uninitialized.
Inits == {t \in Tasks : tasks[t].kind = "init"}
CancelsTimer(c) ==
    tasks[c].pc \in {"cancel scheduled_start_task", "start: cancel scheduled_start_task"}

InitializationOver(t) ==
    IF tasks[t].initialize_task = NoTask THEN TRUE
    ELSE tasks[tasks[t].initialize_task].result # "pending"

C32_NoInitializationOutlivesTimer ==
    \A t \in Timers : tasks[t].result # "pending" => InitializationOver(t)

C32_CancelHelperStep ==
    \A c \in Cmds : \A t \in Timers :
        (/\ CancelsTimer(c) /\ tasks[c].wait = "task" /\ tasks[c].wait_on = t
         /\ tasks'[c].wait # "task")
        => /\ tasks'[t].result # "pending"
           /\ IF tasks'[t].initialize_task = NoTask THEN TRUE
              ELSE tasks'[tasks'[t].initialize_task].result # "pending"

C32_CancelledInitializationStep ==
    \A i \in Inits :
        (/\ tasks[i].result = "pending" /\ tasks[i].pc = "registry_and_initialize"
         /\ tasks'[i].result = "cancelled")
        => ~initialized'

C32_CancelledStartCancelsInitialization ==
    /\ []C32_NoInitializationOutlivesTimer
    /\ [][C32_CancelHelperStep /\ C32_CancelledInitializationStep]_vars

\* a stop has returned after cancelling a timer whose initialization was cancelled
C32_Witness ==
    \E c \in Cmds : \E t \in Timers :
        /\ tasks[c].op = "stop" /\ tasks[c].result = "ok"
        /\ tasks[t].result = "cancelled"
        /\ tasks[t].initialize_task # NoTask
        /\ tasks[tasks[t].initialize_task].result = "cancelled"
        /\ ~initialized

-----------------------------------------------------------------------------
\* C33: with a phase shift in [-2000, 2000] loaded at construction, the effective
\* phase shift (phase_shift_ms + session_phase_shift_delta_ms), phase_shift_ms
\* itself and the value in the ConfigStore stay in [-2000, 2000] whatever commands
\* and beats follow; a commit on stop does not push the phase shift out of range.
InPhaseShiftRange(value) == PHASE_SHIFT_MIN_MS <= value /\ value <= PHASE_SHIFT_MAX_MS

C33_PhaseShiftStaysInRange ==
    /\ InPhaseShiftRange(phase_shift_ms + session_phase_shift_delta_ms)
    /\ InPhaseShiftRange(phase_shift_ms)
    /\ store # None => InPhaseShiftRange(store[1])

\* a stop has committed a staged delta that took the phase shift to the upper limit
C33_Witness ==
    /\ phase_shift_ms = PHASE_SHIFT_MAX_MS
    /\ store = Some(PHASE_SHIFT_MAX_MS)
    /\ session_phase_shift_delta_ms = 0
    /\ \E c \in Cmds : /\ tasks[c].op = "stop" /\ tasks[c].result = "ok"
                       /\ tasks[c].delta_at_call # 0
                       /\ tasks[c].phase_at_call + tasks[c].delta_at_call
                            = PHASE_SHIFT_MAX_MS

-----------------------------------------------------------------------------
\* C34: the reported run state agrees with the tasks that exist.  Whenever no
\* command is in progress: current_run_state is "running" exactly when a beat task
\* is active, "scheduled" exactly when a start timer is pending and no beat task is
\* active, "stopped" exactly when neither is active; and current_run is 1 exactly
\* when current_run_state is not "stopped".
NoCommandInProgress == \A c \in Cmds : tasks[c].result # "pending"

C34_RunFlagAgrees == (current_run = 1) <=> (current_run_state # "stopped")

C34_RunStateAgreesWithTasks ==
    NoCommandInProgress =>
        /\ (current_run_state = "running") <=> (LivePlayLoops # {})
        /\ (current_run_state = "scheduled") <=> (LiveTimers # {} /\ LivePlayLoops = {})
        /\ (current_run_state = "stopped") <=> (LiveTimers = {} /\ LivePlayLoops = {})
        /\ C34_RunFlagAgrees

-----------------------------------------------------------------------------
\* C35: no task is ever orphaned.  Under any interleaving of the command
\* coroutines, every active beat task is the one play_task refers to and every
\* active start timer is the one scheduled_start_task refers to: a cancel helper
\* that resumes from its await does not clear a handle set in the meantime.
C35_NoTaskOrphaned ==
    /\ \A p \in LivePlayLoops : p = play_task
    /\ \A t \in LiveTimers : t = scheduled_start_task

====
